---- MODULE Spec2Model ----
(***************************************************************************)
(* Index RSS watcher: the poll loop of FeedWatcher (src/watcher.py), its   *)
(* CSV ledger of seen entries, the conditional fetch with its cache        *)
(* validators, the "replac" filter, and the SQLite EntryStore              *)
(* (src/store.py).                                                         *)
(***************************************************************************)
EXTENDS Integers, Sequences, FiniteSets, TLC

\* ------------------------------------------------------------------ bounds
\* Longest feed body (number of entries) the server returns.
MaxBody == 2
\* Number of process restarts (a new FeedWatcher on the same storage).
MaxRestarts == 1
\* Number of direct ledger calls (_save_entry, mark_seen, ...) of LedgerSpec.
MaxCalls == 5
\* Number of direct watcher calls (_process_feed, test_feed_access) of DirectSpec.
MaxPasses == 2

\* ------------------------------------------------------- program constants
\* config.py: POLL_INTERVAL_SEC = int(os.getenv("POLL_INTERVAL_SEC", 30))
POLL_INTERVAL_SEC == 30
\* run_forever: max_errors = 5
max_errors == 5
\* run_forever: await asyncio.sleep(POLL_INTERVAL_SEC * 3)
CooldownFactor == 3

\* Python's None, for the optional validators etag / modified.
None == "None"

\* ------------------------------------------------------------------- text
\* Text is a sequence of one-character strings.
\* re.I: the letters of the pattern match in either case; every other
\* character matches only itself.
Lower(c) ==
    CASE c = "R" -> "r"
      [] c = "E" -> "e"
      [] c = "P" -> "p"
      [] c = "L" -> "l"
      [] c = "A" -> "a"
      [] c = "C" -> "c"
      [] OTHER -> c

\* The pattern of REPLACE_PATTERN = re.compile(r"replac", re.I).
PatternText == <<"r", "e", "p", "l", "a", "c">>

\* The search without re.I.
REPLACE_PATTERN_search_case_sensitive(text) ==
    \E i \in 1..Len(text) :
        /\ i + Len(PatternText) - 1 <= Len(text)
        /\ \A k \in 1..Len(PatternText) : text[i + k - 1] = PatternText[k]

\* REPLACE_PATTERN.search(text): the pattern occurs at some position of the
\* text, letter case ignored.
REPLACE_PATTERN_search(text) ==
    \E i \in 1..Len(text) :
        /\ i + Len(PatternText) - 1 <= Len(text)
        /\ \A k \in 1..Len(PatternText) : Lower(text[i + k - 1]) = PatternText[k]

\* The texts the feed's titles and descriptions are drawn from.
TxtReplace == <<"r", "e", "p", "l", "a", "c", "e">>
TxtUpper   == <<"R", "E", "P", "L", "A", "C">>
TxtMixed   == <<"i", "R", "e", "p", "L", "a", "C", "i", "n", "g">>
TxtNear    == <<"r", "e", "p", "l", "a", "y">>
TxtPlain   == <<"a", "d", "d", "e", "d">>
TxtEmpty   == <<>>

\* ---------------------------------------------------------------- entries
\* A parsed feed entry (feedparser's FeedParserDict): attrs is the set of
\* attributes the entry has; reading a missing one raises AttributeError.
Ids == {"a", "b"}

MkEntry(attrs, id, link, title, description) ==
    [attrs |-> attrs, id |-> id, link |-> link, title |-> title,
     description |-> description]

\* getattr(entry, name, default)
GetAttr(entry, name, default) ==
    IF name \in entry.attrs THEN entry[name] ELSE default

\* The entries the server's bodies are built from.
EntryAlertA    == MkEntry({"id", "link", "title", "description"},
                          "a", "a", TxtPlain, TxtMixed)
EntryTitleOnly == MkEntry({"id", "link", "title", "description"},
                          "b", "b", TxtReplace, TxtNear)
EntryNoTitle   == MkEntry({"id", "link", "description"},
                          "b", "b", TxtEmpty, TxtUpper)
EntryNoIdNoDesc == MkEntry({"link", "title"},
                          "a", "a", TxtUpper, TxtEmpty)
EntryNoLink    == MkEntry({"id", "title", "description"},
                          "a", "a", TxtPlain, TxtReplace)

FeedEntries == {EntryAlertA, EntryTitleOnly, EntryNoTitle, EntryNoIdNoDesc,
                EntryNoLink}

\* feedparser.parse(raw).entries for the non-empty bodies the server sends;
\* a body that does not parse has no entries.
Bodies == UNION {[1..n -> FeedEntries] : n \in 0..MaxBody}

\* ------------------------------------------------------------ CSV ledger
\* data/seen_entries.csv: whether the file exists, and its lines. A line is
\* the header ("timestamp,entry_id,title,link") or a row; of a row only the
\* entry_id column is ever read back.
HeaderLine == [kind |-> "header", entry_id |-> "entry_id"]
RowLine(entry_id) == [kind |-> "row", entry_id |-> entry_id]

NoFile == [exists |-> FALSE, lines |-> <<>>]

\* The entry ids of the rows of a sequence of lines.
RowIds(lines) == {lines[i].entry_id : i \in {j \in 1..Len(lines) : lines[j].kind = "row"}}

\* _load_seen_entries: csv.DictReader takes the first line as the field
\* names and yields the others as rows keyed by them; row['entry_id'] raises
\* KeyError when the first line is not the header, the except clause logs it
\* and the ids collected so far (none) are returned.
load_seen_entries_first_line_trusted(file) ==
    IF ~file.exists \/ file.lines = <<>> THEN {}
    ELSE RowIds(Tail(file.lines))

load_seen_entries(file) ==
    IF ~file.exists \/ file.lines = <<>> THEN {}
    ELSE IF Head(file.lines) = HeaderLine
         THEN RowIds(Tail(file.lines))
         ELSE {}

\* _save_entry(entry_id, title, link) on the watcher state w (seen_ids, csv).
\* outcome is where the write ends:
\*   "ok"    the row is written and the id added to seen_ids;
\*   "open"  open(csv_path, 'a') raises (directory data/ missing, no
\*           permission): nothing changes;
\*   "row"   writerow raises (a title the locale's encoding cannot encode):
\*           the file was created and a header written to a new file;
\*   "flush" closing the file raises before anything reached it (disk
\*           full): the file was created and is empty if it was new.
\* The result is [seen_ids, csv, raised].
WriteOutcomes == {"ok", "open", "row", "flush"}

save_entry_add_before_write(seen_ids, file, entry_id, outcome) ==
    LET file_exists == file.exists
        withHeader == IF file_exists THEN file.lines
                      ELSE <<HeaderLine>>
    IN  CASE outcome = "open" ->
               [seen_ids |-> seen_ids \cup {entry_id}, csv |-> file, raised |-> TRUE]
          [] outcome = "flush" ->
               [seen_ids |-> seen_ids \cup {entry_id},
                csv |-> [exists |-> TRUE, lines |-> file.lines], raised |-> TRUE]
          [] outcome = "row" ->
               [seen_ids |-> seen_ids \cup {entry_id},
                csv |-> [exists |-> TRUE, lines |-> withHeader], raised |-> TRUE]
          [] OTHER ->
               [seen_ids |-> seen_ids \cup {entry_id},
                csv |-> [exists |-> TRUE,
                         lines |-> Append(withHeader, RowLine(entry_id))],
                raised |-> FALSE]

save_entry(seen_ids, file, entry_id, outcome) ==
    LET file_exists == file.exists
        withHeader == IF file_exists THEN file.lines
                      ELSE <<HeaderLine>>
    IN  CASE outcome = "open" ->
               [seen_ids |-> seen_ids, csv |-> file, raised |-> TRUE]
          [] outcome = "flush" ->
               [seen_ids |-> seen_ids,
                csv |-> [exists |-> TRUE, lines |-> file.lines], raised |-> TRUE]
          [] outcome = "row" ->
               [seen_ids |-> seen_ids,
                csv |-> [exists |-> TRUE, lines |-> withHeader], raised |-> TRUE]
          [] OTHER ->
               [seen_ids |-> seen_ids \cup {entry_id},
                csv |-> [exists |-> TRUE,
                         lines |-> Append(withHeader, RowLine(entry_id))],
                raised |-> FALSE]

\* ---------------------------------------------------------- _process_feed
\* What Notifier.send(text) does as seen by _process_feed: it returns True,
\* returns False, or raises.
SinkOutcomes == {"True", "False", "raise"}

\* One record of the cycle's log: the loop body got past the seen check for
\* the entry at position idx ("unseen"), Notifier.send was invoked for it
\* ("send", arg = what the sink did), or its row was written ("save").
Event(ev, idx, id, arg) == [ev |-> ev, idx |-> idx, id |-> id, arg |-> arg]

\* The state _process_feed works on: the ledger, the log of the cycle and
\* the exception that ended it ("none" while it runs).
Work(seen, file, log, exc) == [seen_ids |-> seen, csv |-> file, log |-> log, exc |-> exc]

\* The filter of lines 148-150, as a variant that also searches the title.
alert_worthy_title_and_description(entry) ==
    REPLACE_PATTERN_search(GetAttr(entry, "title", TxtEmpty)
                           \o GetAttr(entry, "description", TxtEmpty))

\* Lines 148-150: description = getattr(entry, 'description', '');
\* REPLACE_PATTERN.search(description).
alert_worthy(entry) ==
    REPLACE_PATTERN_search(GetAttr(entry, "description", TxtEmpty))

\* The last statement of the loop body, as a variant that records the entry
\* only when the sink returned True.
record_after_send_only_on_success(w, idx, entry, entry_id, sink) ==
    IF "title" \notin entry.attrs
    THEN {Work(w.seen_ids, w.csv, w.log, "AttributeError")}
    ELSE IF sink \in {"False", "raise"} THEN {w}
    ELSE { LET r == save_entry(w.seen_ids, w.csv, entry_id, o)
           IN  Work(r.seen_ids, r.csv,
                    IF r.raised THEN w.log
                    ELSE Append(w.log, Event("save", idx, entry_id, "-")),
                    IF r.raised THEN "OSError" ELSE "none")
           : o \in WriteOutcomes }

\* Line 174: self._save_entry(entry_id, entry.title, entry.link). Reading
\* entry.title raises AttributeError for an entry without a title, before
\* _save_entry is entered. sink is what the sink did for this entry ("-"
\* when it was not invoked).
record_after_send(w, idx, entry, entry_id, sink) ==
    IF "title" \notin entry.attrs
    THEN {Work(w.seen_ids, w.csv, w.log, "AttributeError")}
    ELSE { LET r == save_entry(w.seen_ids, w.csv, entry_id, o)
           IN  Work(r.seen_ids, r.csv,
                    IF r.raised THEN w.log
                    ELSE Append(w.log, Event("save", idx, entry_id, "-")),
                    IF r.raised THEN "OSError" ELSE "none")
           : o \in WriteOutcomes }

\* The seen check of lines 144-145, as a variant that never skips.
is_seen_never(seen_ids, entry_id) == FALSE

\* Lines 144-145: entry_id in self.seen_ids.
is_seen_in_memory(seen_ids, entry_id) == entry_id \in seen_ids

\* One iteration of the loop of lines 142-174 for the entry at position idx:
\* the set of states it can end in.
process_entry(w, idx, entry) ==
    IF "link" \notin entry.attrs
    THEN \* line 143: getattr(entry, 'id', entry.link) evaluates entry.link
         {Work(w.seen_ids, w.csv, w.log, "AttributeError")}
    ELSE
    LET entry_id == GetAttr(entry, "id", entry.link)
        w1 == Work(w.seen_ids, w.csv,
                   Append(w.log, Event("unseen", idx, entry_id, "-")), "none")
    IN  IF is_seen_in_memory(w.seen_ids, entry_id) THEN {w}
        ELSE IF alert_worthy(entry)
        THEN UNION { record_after_send(
                        Work(w1.seen_ids, w1.csv,
                             Append(w1.log, Event("send", idx, entry_id, s)), "none"),
                        idx, entry, entry_id, s)
                     : s \in SinkOutcomes }
        ELSE \* line 172 formats entry.title into the debug message
             record_after_send(w1, idx, entry, entry_id, "-")

\* _process_feed on the entries body[idx..]: an exception ends the loop.
RECURSIVE process_from(_, _, _)
process_from(w, body, idx) ==
    IF idx > Len(body) THEN {w}
    ELSE UNION { IF v.exc # "none" THEN {v} ELSE process_from(v, body, idx + 1)
                 : v \in process_entry(w, idx, body[idx]) }

\* _process_feed iterating over reversed(feed.entries).
process_feed_reversed(seen_ids, file, body) ==
    process_from(Work(seen_ids, file, <<>>, "none"),
                 [i \in 1..Len(body) |-> body[Len(body) + 1 - i]], 1)

\* _process_feed(raw) with feedparser.parse(raw).entries = body.
process_feed(seen_ids, file, body) ==
    process_from(Work(seen_ids, file, <<>>, "none"), body, 1)

\* ------------------------------------------------------------------ state
VARIABLES
    pc,                 \* where run_forever is: "fetch" (the request of line
                        \* 79 is out), "read" (a 200 arrived, resp.read() of
                        \* line 88 is pending), "cooldown" (sleep of line 133),
                        \* "sleep" (sleep of line 136), "cancelled"
    consecutive_errors, \* run_forever's local counter
    etag, modified,     \* FeedWatcher.etag / .modified: None or the header text
    seen_ids,           \* FeedWatcher.seen_ids
    csv,                \* the file data/seen_entries.csv
    db,                 \* the SQLite file of EntryStore: [exists, seen]
    store,              \* the EntryStore object: "none", "open"
    restarts,           \* process starts after the first
    calls,              \* direct ledger calls made (LedgerSpec)
    lastCall,           \* the last direct ledger call and its result
    lastReq,            \* If-None-Match / If-Modified-Since of the last request
    reply,              \* what the last request of this cycle got
    body,               \* the entries of the body processed in this cycle
    cycleLog,           \* the events of this cycle's _process_feed
    cycleExc,           \* the exception that ended this cycle's try block
    notified,           \* ids the sink was invoked for in earlier cycles of this run
    saveFailed,         \* a ledger write has raised in this run
    recorded,           \* ids whose _save_entry returned normally, in any run
    fetched,            \* a request has been issued in this run
    waited,             \* seconds slept since the last request
    cooled,             \* the cooldown of line 133 was taken since the last request
    received,           \* ETag / Last-Modified of the 200 response being read
    unsaved,            \* ids whose last ledger write raised, in this run
    twilio,             \* config.py's Twilio settings and Notifier._client
    main                \* where main() of main.py is, and its exit code

vars == <<pc, consecutive_errors, etag, modified, seen_ids, csv, db, store,
          restarts, calls, lastCall, lastReq, reply, body, cycleLog, cycleExc,
          notified, saveFailed, recorded, fetched, waited, cooled, received,
          unsaved, twilio, main>>

watcherVars == <<pc, consecutive_errors, etag, modified, restarts, lastReq,
                 reply, body, cycleLog, cycleExc, notified, saveFailed, fetched,
                 waited, cooled, received, unsaved>>
\* What only the direct calls and main() change.
ledgerCallVars == <<db, store, calls, lastCall, twilio, main>>

NoRequest == [inm |-> None, ims |-> None]
NoCall == [op |-> "none", id |-> "-", result |-> "-", again |-> FALSE]
NoDb == [exists |-> FALSE, seen |-> {}]
NoHeaders == [etag |-> None, modified |-> None]

\* config.py lines 17-21 and Notifier._client (notifier.py line 12):
\* sid_token: TWILIO_SID and TWILIO_TOKEN are both set; from_to: TWILIO_FROM
\* and TWILIO_TO are both set; client: _client is not None.
Env(sid_token, from_to, use_voice) ==
    [sid_token |-> sid_token, from_to |-> from_to, use_voice |-> use_voice,
     client |-> FALSE]

\* A complete .env with USE_VOICE at its default 0.
EnvComplete == Env(TRUE, TRUE, FALSE)

\* main() has not been called. at: where main() is; code: its return
\* value; watcher: whether FeedWatcher(store) returned an object; task:
\* whether run_forever was started as a task.
NoMain == [at |-> "none", code |-> "-", watcher |-> "none", task |-> "none"]

\* Header values the server sends; "" is an empty header field.
EtagValues == {"", "e1"}
ModifiedValues == {"", "m1"}

\* FeedWatcher.__init__ (lines 13-17) on the storage as it is, and the first
\* statements of run_forever (line 110), in a process whose Twilio settings
\* are env.
Start(env) ==
    /\ pc = "fetch"
    /\ consecutive_errors = 0
    /\ etag = None
    /\ modified = None
    /\ csv = NoFile
    /\ seen_ids = load_seen_entries(csv)
    /\ db = NoDb
    /\ store = "none"
    /\ restarts = 0
    /\ calls = 0
    /\ lastCall = NoCall
    /\ lastReq = NoRequest
    /\ reply = "none"
    /\ body = <<>>
    /\ cycleLog = <<>>
    /\ cycleExc = "none"
    /\ notified = {}
    /\ saveFailed = FALSE
    /\ recorded = {}
    /\ fetched = FALSE
    /\ waited = 0
    /\ cooled = FALSE
    /\ received = NoHeaders
    /\ unsaved = {}
    /\ twilio = env
    /\ main = NoMain

Init == Start(EnvComplete)

\* ------------------------------------------------------------------ _fetch
\* Lines 72-73, with the test "is not None" in place of truthiness.
request_headers_is_not_none(e, m) == [inm |-> e, ims |-> m]

\* Lines 72-73: if self.etag: hdrs["If-None-Match"] = self.etag, and the
\* same for self.modified: an empty string is falsy and sets no header.
request_headers(e, m) ==
    [inm |-> IF e # None /\ e # "" THEN e ELSE None,
     ims |-> IF m # None /\ m # "" THEN m ELSE None]

\* Lines 86-87, as a variant that drops a validator the response omits.
updated_validator_or_none(header, old) == header

\* Lines 86-87: resp.headers.get("ETag", self.etag); header is the header's
\* value, None when the response has none.
updated_validator(header, old) == IF header # None THEN header ELSE old

\* The except clause of run_forever (lines 127-134), up to the cooldown sleep,
\* as a variant that lets the exception end the loop.
after_exception_propagates(ce) == [consecutive_errors |-> ce, pc |-> "crashed"]

\* The except clause with the test consecutive_errors > max_errors.
after_exception_strict_threshold(ce) ==
    [consecutive_errors |-> ce + 1,
     pc |-> IF ce + 1 > max_errors THEN "cooldown" ELSE "sleep"]

\* The except clause of run_forever (lines 127-134), up to the cooldown sleep.
after_exception(ce) ==
    [consecutive_errors |-> ce + 1,
     pc |-> IF ce + 1 >= max_errors THEN "cooldown" ELSE "sleep"]

\* The request goes out (lines 65-79): every fetch action starts with it.
SendRequest ==
    /\ pc = "fetch"
    /\ lastReq' = request_headers(etag, modified)
    /\ fetched' = TRUE
    /\ waited' = 0
    /\ cooled' = FALSE

\* Status 304 handled like 200: the validators are taken from the headers
\* of a response that has none.
FetchNotModified_takes_validators ==
    /\ SendRequest
    /\ reply' = "304"
    /\ pc' = "sleep"
    /\ etag' = updated_validator_or_none(None, etag)
    /\ modified' = updated_validator_or_none(None, modified)
    /\ UNCHANGED <<consecutive_errors, seen_ids, csv, restarts,
                   body, cycleLog, cycleExc, notified, saveFailed, recorded,
                   received, unsaved>>
    /\ UNCHANGED ledgerCallVars

\* Status 304 (lines 82-84, 121-125): _fetch returns b"" and run_forever
\* takes the else branch.
FetchNotModified ==
    /\ SendRequest
    /\ reply' = "304"
    /\ pc' = "sleep"
    /\ UNCHANGED <<consecutive_errors, etag, modified, seen_ids, csv, restarts,
                   body, cycleLog, cycleExc, notified, saveFailed, recorded,
                   received, unsaved>>
    /\ UNCHANGED ledgerCallVars

\* A transport failure, a timeout or a status other than 200 and 304 (lines
\* 91-100): _fetch raises and run_forever's except clause counts it.
FetchError ==
    /\ SendRequest
    /\ reply' = "error"
    /\ cycleExc' = "FetchError"
    /\ LET h == after_exception(consecutive_errors)
       IN  /\ consecutive_errors' = h.consecutive_errors
           /\ pc' = h.pc
    /\ UNCHANGED <<etag, modified, seen_ids, csv, restarts, body, cycleLog,
                   notified, saveFailed, recorded, received, unsaved>>
    /\ UNCHANGED ledgerCallVars

\* Status 200 (lines 85-87): the validators are taken from the response's
\* headers, then the body is awaited.
FetchOk(etags, modifieds) ==
    /\ SendRequest
    /\ \E e \in etags \cup {None}, m \in modifieds \cup {None} :
          /\ etag' = updated_validator(e, etag)
          /\ modified' = updated_validator(m, modified)
          /\ received' = [etag |-> e, modified |-> m]
    /\ reply' = "200"
    /\ pc' = "read"
    /\ UNCHANGED <<consecutive_errors, seen_ids, csv, restarts, body, cycleLog,
                   cycleExc, notified, saveFailed, recorded, unsaved>>
    /\ UNCHANGED ledgerCallVars

\* resp.read() raises (line 88): the validators are already stored.
ReadError ==
    /\ pc = "read"
    /\ reply' = "readerror"
    /\ received' = NoHeaders
    /\ cycleExc' = "FetchError"
    /\ LET h == after_exception(consecutive_errors)
       IN  /\ consecutive_errors' = h.consecutive_errors
           /\ pc' = h.pc
    /\ UNCHANGED <<etag, modified, seen_ids, csv, restarts, lastReq, body,
                   cycleLog, notified, saveFailed, recorded, fetched, waited, cooled,
                   unsaved>>
    /\ UNCHANGED ledgerCallVars

\* resp.read() returns b"" (lines 88-90, 118, 121-122): the data is falsy
\* and run_forever takes the else branch.
ReadEmpty ==
    /\ pc = "read"
    /\ reply' = "200empty"
    /\ received' = NoHeaders
    /\ pc' = "sleep"
    /\ UNCHANGED <<consecutive_errors, etag, modified, seen_ids, csv, restarts,
                   lastReq, body, cycleLog, cycleExc, notified, saveFailed,
                   recorded, fetched, waited, cooled, unsaved>>
    /\ UNCHANGED ledgerCallVars

\* Ids a log has a written row for.
SavedIds(log) == {log[i].id : i \in {j \in 1..Len(log) : log[j].ev = "save"}}

\* The id whose _save_entry raised in a pass of _process_feed: that of the
\* last entry that got past the seen check.
FailedIds(w) ==
    IF w.exc = "OSError" /\ w.log # <<>>
    THEN LET unseen == {j \in 1..Len(w.log) : w.log[j].ev = "unseen"}
         IN  {w.log[j].id : j \in {k \in unseen : \A l \in unseen : l <= k}}
    ELSE {}

\* resp.read() returns a body (lines 88-90, 118-120): _process_feed runs on
\* its entries; a normal return resets the counter, an exception goes to the
\* except clause.
ReadAndProcess(bodies) ==
    /\ pc = "read"
    /\ \E b \in bodies :
       \E w \in process_feed(seen_ids, csv, b) :
          /\ body' = b
          /\ seen_ids' = w.seen_ids
          /\ csv' = w.csv
          /\ cycleLog' = w.log
          /\ cycleExc' = w.exc
          /\ saveFailed' = (saveFailed \/ w.exc = "OSError")
          /\ recorded' = recorded \cup SavedIds(w.log)
          /\ unsaved' = (unsaved \ SavedIds(w.log)) \cup FailedIds(w)
          /\ IF w.exc = "none"
             THEN /\ consecutive_errors' = 0
                  /\ pc' = "sleep"
             ELSE LET h == after_exception(consecutive_errors)
                  IN  /\ consecutive_errors' = h.consecutive_errors
                      /\ pc' = h.pc
    /\ reply' = "200body"
    /\ received' = NoHeaders
    /\ UNCHANGED <<etag, modified, restarts, lastReq, notified, fetched, waited,
                   cooled>>
    /\ UNCHANGED ledgerCallVars

\* ------------------------------------------------------------- run_forever
\* Ids the sink was invoked for in a log.
SentIds(log) == {log[i].id : i \in {j \in 1..Len(log) : log[j].ev = "send"}}

\* Lines 132-134: the cooldown sleep, then the counter is reset.
Cooldown ==
    /\ pc = "cooldown"
    /\ waited' = waited + POLL_INTERVAL_SEC * CooldownFactor
    /\ cooled' = TRUE
    /\ consecutive_errors' = 0
    /\ pc' = "sleep"
    /\ UNCHANGED <<etag, modified, seen_ids, csv, restarts, lastReq, reply, body,
                   cycleLog, cycleExc, notified, saveFailed, recorded, fetched,
                   received, unsaved>>
    /\ UNCHANGED ledgerCallVars

\* Line 136 without its await: the coroutine is created and never run, the
\* next iteration starts at once.
Sleep_not_awaited ==
    /\ pc = "sleep"
    /\ waited' = waited
    /\ pc' = "fetch"
    /\ notified' = notified \cup SentIds(cycleLog)
    /\ lastReq' = NoRequest
    /\ reply' = "none"
    /\ body' = <<>>
    /\ cycleLog' = <<>>
    /\ cycleExc' = "none"
    /\ UNCHANGED <<consecutive_errors, etag, modified, seen_ids, csv, restarts,
                   saveFailed, recorded, fetched, cooled, received, unsaved>>
    /\ UNCHANGED ledgerCallVars

\* Line 136: the sleep that ends every iteration; the next iteration starts.
Sleep ==
    /\ pc = "sleep"
    /\ waited' = waited + POLL_INTERVAL_SEC
    /\ pc' = "fetch"
    /\ notified' = notified \cup SentIds(cycleLog)
    /\ lastReq' = NoRequest
    /\ reply' = "none"
    /\ body' = <<>>
    /\ cycleLog' = <<>>
    /\ cycleExc' = "none"
    /\ UNCHANGED <<consecutive_errors, etag, modified, seen_ids, csv, restarts,
                   saveFailed, recorded, fetched, cooled, received, unsaved>>
    /\ UNCHANGED ledgerCallVars

\* The task is cancelled from outside (main.py line 64) at one of its await
\* points: CancelledError is no Exception, nothing in run_forever catches it.
Cancel ==
    /\ pc \in {"fetch", "read", "cooldown", "sleep"}
    /\ pc' = "cancelled"
    /\ notified' = notified \cup SentIds(cycleLog)
    /\ lastReq' = NoRequest
    /\ reply' = "none"
    /\ body' = <<>>
    /\ cycleLog' = <<>>
    /\ cycleExc' = "none"
    /\ received' = NoHeaders
    /\ UNCHANGED <<consecutive_errors, etag, modified, seen_ids, csv, restarts,
                   saveFailed, recorded, fetched, waited, cooled, unsaved>>
    /\ UNCHANGED ledgerCallVars

\* The process ends and a new one starts on the same storage: __init__ (lines
\* 13-17) and line 110.
Restart ==
    /\ restarts < MaxRestarts
    /\ restarts' = restarts + 1
    /\ pc' = "fetch"
    /\ consecutive_errors' = 0
    /\ etag' = None
    /\ modified' = None
    /\ seen_ids' = load_seen_entries(csv)
    /\ lastReq' = NoRequest
    /\ reply' = "none"
    /\ body' = <<>>
    /\ cycleLog' = <<>>
    /\ cycleExc' = "none"
    /\ notified' = {}
    /\ saveFailed' = FALSE
    /\ fetched' = FALSE
    /\ waited' = 0
    /\ cooled' = FALSE
    /\ received' = NoHeaders
    /\ unsaved' = {}
    /\ UNCHANGED <<csv, recorded>>
    /\ UNCHANGED ledgerCallVars

\* One step of the watcher process against a server whose 200 responses
\* carry an ETag of etags or none, a Last-Modified of modifieds or none, and
\* a body of bodies.
Loop(etags, modifieds, bodies) ==
    \/ FetchNotModified
    \/ FetchError
    \/ FetchOk(etags, modifieds)
    \/ ReadError
    \/ ReadEmpty
    \/ ReadAndProcess(bodies)
    \/ Cooldown
    \/ Sleep
    \/ Cancel
    \/ Restart

\* The feed side: a server that sends no validators and any body of Bodies.
Next == Loop({}, {}, Bodies)

Spec == Init /\ [][Next]_vars

\* The fetch side: a server that sends every combination of validators, and
\* bodies of at most one entry.
FetchBodies == {<<>>, <<EntryAlertA>>, <<EntryNoTitle>>}

FetchNext == Loop(EtagValues, ModifiedValues, FetchBodies)

FetchSpec == Init /\ [][FetchNext]_vars

\* The fetch side with the scheduling run_forever relies on: a request that
\* is out gets its reply or fails (the timeouts of lines 79 and 107), a body
\* that is awaited arrives or fails, and a sleep that was started ends.
\* Cancelling and restarting the process are up to the outside.
LiveSpec ==
    /\ FetchSpec
    /\ WF_vars(FetchNotModified \/ FetchError \/ FetchOk(EtagValues, ModifiedValues))
    /\ WF_vars(ReadError \/ ReadEmpty \/ ReadAndProcess(FetchBodies))
    /\ WF_vars(Cooldown)
    /\ WF_vars(Sleep)

\* -------------------------------------------------------------- EntryStore
\* store.py. The database file holds the table seen (id TEXT PRIMARY KEY):
\* db.exists says the table was created, db.seen is its set of ids.

\* EntryStore.__init__ (lines 5-10): CREATE TABLE IF NOT EXISTS keeps the
\* rows of a table that is already there.
EntryStore_init(d) == [exists |-> TRUE, seen |-> d.seen]

\* is_seen (lines 21-24): SELECT 1 FROM seen WHERE id=?; fetchone() is not None.
is_seen(d, entry_id) == entry_id \in d.seen

\* mark_seen with a plain INSERT: the primary key rejects a second row.
mark_seen_plain_insert(d, entry_id) ==
    IF entry_id \in d.seen
    THEN [db |-> d, result |-> "IntegrityError"]
    ELSE [db |-> [d EXCEPT !.seen = @ \cup {entry_id}], result |-> "ok"]

\* mark_seen (lines 26-28): INSERT OR IGNORE INTO seen (id) VALUES (?), then
\* the commit of _conn.
mark_seen(d, entry_id) ==
    [db |-> [d EXCEPT !.seen = @ \cup {entry_id}], result |-> "ok"]

\* ------------------------------------------------------ direct ledger calls
\* The ledger operations called one by one, as test.py (test_csv_storage)
\* and main.py do, on the storage left by the calls before.
\* again: the id was already marked when the call was made.
Call(op, id, result, again) == [op |-> op, id |-> id, result |-> result, again |-> again]

CallStep ==
    /\ calls < MaxCalls
    /\ calls' = calls + 1
    /\ UNCHANGED watcherVars
    /\ UNCHANGED <<twilio, main>>

\* watcher._save_entry(entry_id, title, link)
CallSaveEntry ==
    /\ CallStep
    /\ \E id \in Ids, o \in WriteOutcomes :
          LET r == save_entry(seen_ids, csv, id, o)
          IN  /\ seen_ids' = r.seen_ids
              /\ csv' = r.csv
              /\ recorded' = IF r.raised THEN recorded ELSE recorded \cup {id}
              /\ lastCall' = Call("save_entry", id, IF r.raised THEN "OSError" ELSE "ok",
                                   id \in seen_ids)
    /\ UNCHANGED <<db, store>>

\* FeedWatcher(): a new watcher on the same csv_path.
CallNewWatcher ==
    /\ CallStep
    /\ seen_ids' = load_seen_entries(csv)
    /\ lastCall' = Call("FeedWatcher", "-", "ok", FALSE)
    /\ UNCHANGED <<csv, recorded, db, store>>

\* EntryStore(DB_PATH): sqlite3.connect or the CREATE TABLE raises when the
\* path cannot be opened (ok = FALSE).
CallNewStore ==
    /\ CallStep
    /\ \E ok \in BOOLEAN :
          IF ok
          THEN /\ db' = EntryStore_init(db)
               /\ store' = "open"
               /\ lastCall' = Call("EntryStore", "-", "ok", FALSE)
          ELSE /\ UNCHANGED db
               /\ store' = "none"
               /\ lastCall' = Call("EntryStore", "-", "OperationalError", FALSE)
    /\ UNCHANGED <<seen_ids, csv, recorded>>

\* store.mark_seen(entry_id)
CallMarkSeen ==
    /\ CallStep
    /\ store = "open"
    /\ \E id \in Ids :
          LET r == mark_seen(db, id)
          IN  /\ db' = r.db
              /\ lastCall' = Call("mark_seen", id, r.result, id \in db.seen)
    /\ UNCHANGED <<seen_ids, csv, recorded, store>>

\* store.is_seen(entry_id)
CallIsSeen ==
    /\ CallStep
    /\ store = "open"
    /\ \E id \in Ids :
          lastCall' = Call("is_seen", id, IF is_seen(db, id) THEN "True" ELSE "False",
                           id \in db.seen)
    /\ UNCHANGED <<seen_ids, csv, recorded, db, store>>

\* ---------------------------------------------------------------- Notifier
\* notifier.py. What the Twilio API does when a message or call is created.
TransportOutcomes == {"ok", "raise"}

\* _get_client (lines 15-23): the cached client, or a new one when both
\* credentials are set; ValueError otherwise.
get_client(tw) ==
    IF tw.client THEN [raised |-> FALSE, twilio |-> tw]
    ELSE IF ~tw.sid_token THEN [raised |-> TRUE, twilio |-> tw]
    ELSE [raised |-> FALSE, twilio |-> [tw EXCEPT !.client = TRUE]]

\* The try block of send (lines 42-70): outcome is "True" or the exception
\* that leaves the block, contacted the API call that was made.
send_try(tw, test_mode, transport) ==
    IF test_mode
    THEN [outcome |-> "True", twilio |-> tw, contacted |-> "none"]
    ELSE IF ~tw.from_to
    THEN [outcome |-> "ValueError", twilio |-> tw, contacted |-> "none"]
    ELSE LET g == get_client(tw)
             api == IF tw.use_voice THEN "calls.create" ELSE "messages.create"
         IN  IF g.raised
             THEN [outcome |-> "ValueError", twilio |-> tw, contacted |-> "none"]
             ELSE IF transport = "raise"
             THEN [outcome |-> "TwilioException", twilio |-> g.twilio,
                   contacted |-> api]
             ELSE [outcome |-> "True", twilio |-> g.twilio, contacted |-> api]

\* send without the except clause of lines 72-74: the exception leaves send.
Notifier_send_without_except(tw, test_mode, transport) ==
    LET t == send_try(tw, test_mode, transport)
    IN  [result |-> IF t.outcome = "True" THEN "True" ELSE "raise",
         twilio |-> t.twilio, contacted |-> t.contacted]

\* Notifier.send(text, test_mode) (lines 38-74): every Exception of the try
\* block is logged and turned into False.
Notifier_send(tw, test_mode, transport) ==
    LET t == send_try(tw, test_mode, transport)
    IN  [result |-> IF t.outcome = "True" THEN "True" ELSE "False",
         twilio |-> t.twilio, contacted |-> t.contacted]

\* Notifier.send(text, test_mode=...) called directly, as test.py
\* (test_notifier) and _process_feed do.
CallSend ==
    /\ calls < MaxCalls
    /\ calls' = calls + 1
    /\ \E test_mode \in BOOLEAN, transport \in TransportOutcomes :
          LET r == Notifier_send(twilio, test_mode, transport)
          IN  /\ twilio' = r.twilio
              /\ lastCall' = [op |-> "send", id |-> "-", result |-> r.result,
                              again |-> twilio.client, test_mode |-> test_mode,
                              transport |-> transport, contacted |-> r.contacted]
    /\ UNCHANGED watcherVars
    /\ UNCHANGED <<seen_ids, csv, recorded, db, store, main>>

\* ------------------------------------------------------------------- main
\* main.py. FeedWatcher(*args): __init__(self) of watcher.py line 13 takes
\* no argument besides self, a call with one raises TypeError.
FeedWatcher_new(args) == IF Len(args) = 0 THEN "ok" ELSE "TypeError"

\* Lines 40-42, returning 0.
store_init_failed_returns_0 ==
    [at |-> "exited", code |-> "0", watcher |-> "none", task |-> "none"]

\* Lines 40-42: EntryStore(DB_PATH) raised; main logs it and returns 1.
store_init_failed ==
    [at |-> "exited", code |-> "1", watcher |-> "none", task |-> "none"]

\* Lines 44-49 after EntryStore(DB_PATH) returned: watcher = FeedWatcher(store);
\* an exception is logged and main returns 1, otherwise lines 52-54 start
\* run_forever as a task and main waits for it or for the shutdown event.
after_store_init ==
    IF FeedWatcher_new(<<"store">>) = "ok"
    THEN [at |-> "running", code |-> "-", watcher |-> "constructed",
          task |-> "created"]
    ELSE [at |-> "exited", code |-> "1", watcher |-> "none", task |-> "none"]

\* python -m src.main: main() from its first statement to its return or to
\* its first await (line 57), on the storage as it is. ok: EntryStore(DB_PATH)
\* returns (it creates the table) or raises.
CallMain ==
    /\ calls < MaxCalls
    /\ calls' = calls + 1
    /\ \E ok \in BOOLEAN :
          /\ IF ok
             THEN /\ db' = EntryStore_init(db)
                  /\ store' = "open"
                  /\ main' = after_store_init
             ELSE /\ UNCHANGED db
                  /\ store' = "none"
                  /\ main' = store_init_failed
          /\ lastCall' = [op |-> "main", id |-> "-", result |-> main'.code,
                          again |-> FALSE, store_ok |-> ok]
    /\ seen_ids' = IF main'.watcher = "constructed" THEN load_seen_entries(csv)
                   ELSE seen_ids
    /\ UNCHANGED watcherVars
    /\ UNCHANGED <<csv, recorded, twilio>>

\* The direct calls, each on the storage the calls before it left.
LedgerNext ==
    \/ CallSaveEntry
    \/ CallNewWatcher
    \/ CallNewStore
    \/ CallMarkSeen
    \/ CallIsSeen
    \/ CallMain

LedgerSpec == Init /\ [][LedgerNext]_vars

\* The processes the Notifier runs in: every combination of settings.
NotifierInit ==
    \E sid_token \in BOOLEAN, from_to \in BOOLEAN, use_voice \in BOOLEAN :
        Start(Env(sid_token, from_to, use_voice))

NotifierNext == CallSend

NotifierSpec == NotifierInit /\ [][NotifierNext]_vars

\* ---------------------------------------------------- direct watcher calls
\* test.py (lines 73-91) and test_watcher.py (lines 27-81) call
\* test_feed_access and _process_feed on a watcher whose loop is not running.

\* An entry without a title whose description does not match.
EntryPlainNoTitle == MkEntry({"id", "link", "description"},
                             "b", "b", TxtEmpty, TxtPlain)

\* The entries of the bodies of the direct calls.
DirectEntries == {EntryAlertA, EntryTitleOnly, EntryPlainNoTitle,
                  EntryNoIdNoDesc}

\* The bodies handed to _process_feed.
DirectBodies == UNION {[1..n -> DirectEntries] : n \in 0..MaxBody}

\* watcher._process_feed(raw) with feedparser.parse(raw).entries = b; an
\* exception goes to the caller's except clause.
CallProcessFeed ==
    /\ calls < MaxPasses
    /\ calls' = calls + 1
    /\ \E b \in DirectBodies :
       \E w \in process_feed(seen_ids, csv, b) :
          /\ body' = b
          /\ seen_ids' = w.seen_ids
          /\ csv' = w.csv
          /\ cycleLog' = w.log
          /\ cycleExc' = w.exc
          /\ saveFailed' = (saveFailed \/ w.exc = "OSError")
          /\ recorded' = recorded \cup SavedIds(w.log)
          /\ unsaved' = (unsaved \ SavedIds(w.log)) \cup FailedIds(w)
          /\ lastCall' = Call("process_feed", "-",
                              IF w.exc = "none" THEN "ok" ELSE w.exc, FALSE)
    /\ notified' = notified \cup SentIds(cycleLog)
    /\ UNCHANGED <<pc, consecutive_errors, etag, modified, restarts, lastReq,
                   reply, fetched, waited, cooled, received>>
    /\ UNCHANGED <<db, store, twilio, main>>

\* What a request of test_feed_access gets: status 304, a failure before the
\* status is handled, or status 200 whose body then fails to arrive, is
\* empty, or arrives.
AccessOutcomes == {"304", "error", "200readerror", "200empty", "200body"}

\* await watcher.test_feed_access() (lines 53-61): one _fetch in a session
\* of its own; the result is len(data) > 0, or False when _fetch raised. The
\* data is not processed. A 200 response carries the ETag "e1" or none.
CallTestFeedAccess ==
    /\ calls < MaxPasses
    /\ calls' = calls + 1
    /\ \E o \in AccessOutcomes, e \in {None, "e1"} :
          /\ IF o \in {"304", "error"}
             THEN UNCHANGED <<etag, modified>>
             ELSE /\ etag' = updated_validator(e, etag)
                  /\ modified' = updated_validator(None, modified)
          /\ lastCall' = [op |-> "test_feed_access", id |-> "-",
                          result |-> IF o = "200body" THEN "True" ELSE "False",
                          again |-> FALSE, outcome |-> o,
                          request |-> request_headers(etag, modified),
                          stored |-> (etag' # etag \/ modified' # modified),
                          processed |-> FALSE]
    /\ UNCHANGED <<pc, consecutive_errors, restarts, lastReq, reply, body,
                   cycleLog, cycleExc, notified, saveFailed, fetched, waited,
                   cooled, received, unsaved>>
    /\ UNCHANGED <<seen_ids, csv, recorded, db, store, twilio, main>>

DirectNext ==
    \/ CallProcessFeed
    \/ CallTestFeedAccess

DirectSpec == Init /\ [][DirectNext]_vars

\* ------------------------------------------------------------------ claims
\* Positions of the log's events of one kind.
EventsOf(log, ev) == {j \in 1..Len(log) : log[j].ev = ev}

\* Body positions the sink was invoked for, and those that passed the seen check.
SentAt(log) == {log[j].idx : j \in EventsOf(log, "send")}
UnseenAt(log) == {log[j].idx : j \in EventsOf(log, "unseen")}

\* C1: within one process run in which no ledger write has raised, the sink
\* is invoked at most once per entry id: no invocation of this cycle is for
\* an id an earlier cycle of the run invoked it for, and no two invocations
\* of this cycle are for the same id.
C1_AtMostOncePerId ==
    ~saveFailed =>
        /\ \A j \in EventsOf(cycleLog, "send") : cycleLog[j].id \notin notified
        /\ \A j, k \in EventsOf(cycleLog, "send") :
              cycleLog[j].id = cycleLog[k].id => j = k

\* C2: every entry the sink was invoked for in a cycle is in the ledger
\* (seen_ids and a row of the file) when the cycle's processing ends, whatever
\* the sink did, and was not reported by an earlier cycle of the run. Stated
\* for runs in which no ledger write has raised, which the claim includes.
C2_RecordedWhateverSinkDoes ==
    (~saveFailed /\ pc \in {"sleep", "cooldown"}) =>
        \A j \in EventsOf(cycleLog, "send") :
            /\ cycleLog[j].id \in seen_ids
            /\ cycleLog[j].id \in RowIds(csv.lines)
            /\ cycleLog[j].id \notin notified

\* C3: every id a _save_entry recorded is seen by the watcher, in the run
\* that recorded it and in every run started later on the same file.
C3_RestartDurability == recorded \subseteq seen_ids

\* The state C3 is about: a new watcher that has lost a recorded id.
C3_Lost == restarts > 0 /\ ~fetched /\ recorded # {} /\ seen_ids = {}

\* C4: marking an id that is already marked raises no error and leaves the
\* set of seen ids as it was, with the id in it: for EntryStore.mark_seen
\* the table, for _save_entry (when the write itself succeeds) seen_ids and
\* the set a new watcher would load.
C4_IdempotentMarking ==
    [][ /\ (calls' = calls + 1 /\ lastCall'.op = "mark_seen"
            /\ lastCall'.id \in db.seen)
           => /\ lastCall'.result = "ok"
              /\ db'.seen = db.seen
              /\ lastCall'.id \in db'.seen
        /\ (calls' = calls + 1 /\ lastCall'.op = "save_entry"
            /\ lastCall'.id \in seen_ids /\ lastCall'.result = "ok")
           => /\ seen_ids' = seen_ids
              /\ lastCall'.id \in seen_ids'
              /\ load_seen_entries(csv') = load_seen_entries(csv) ]_vars

\* Both ledgers have taken a second marking of "a".
C4_MarkedTwice ==
    /\ lastCall = Call("mark_seen", "a", "ok", TRUE)
    /\ db.seen = {"a"}
    /\ seen_ids = {"a"}
    /\ csv.lines = <<HeaderLine, RowLine("a"), RowLine("a")>>

\* "replac" in any letter case, letter by letter.
ReplacCases == << {"r", "R"}, {"e", "E"}, {"p", "P"}, {"l", "L"}, {"a", "A"}, {"c", "C"} >>

ContainsReplac(text) ==
    \E i \in 0..(Len(text) - Len(ReplacCases)) :
        \A k \in 1..Len(ReplacCases) : text[i + k] \in ReplacCases[k]

DescriptionOf(entry) == IF "description" \in entry.attrs THEN entry.description ELSE <<>>
TitleOf(entry) == IF "title" \in entry.attrs THEN entry.title ELSE <<>>

\* C5: for an entry that passed the seen check, the sink is invoked if and
\* only if its description contains "replac" in some letter case; the sink
\* is invoked for no other entry.
C5_DescriptionDecides ==
    /\ SentAt(cycleLog) \subseteq UnseenAt(cycleLog)
    /\ \A i \in UnseenAt(cycleLog) :
          (i \in SentAt(cycleLog)) <=> ContainsReplac(DescriptionOf(body[i]))

\* One body with a mixed-case match in the description (reported) and a
\* match in the title only (not reported).
C5_BothCases ==
    /\ Len(body) = 2
    /\ body[1] = EntryAlertA /\ 1 \in SentAt(cycleLog)
    /\ body[2] = EntryTitleOnly /\ 2 \in UnseenAt(cycleLog) \ SentAt(cycleLog)

\* C6 as claimed: the sink is invoked for an unseen entry exactly when the
\* concatenation of its title and description contains the phrase.
C6_TitleAndDescription ==
    \A i \in UnseenAt(cycleLog) :
        (i \in SentAt(cycleLog))
            <=> ContainsReplac(TitleOf(body[i]) \o DescriptionOf(body[i]))

\* C6 as amended: only the description is tested. An unseen entry whose
\* title contains the phrase and whose description does not is not reported,
\* and neither is one without any description text.
C6_TitleIgnored ==
    \A i \in UnseenAt(cycleLog) :
        /\ (ContainsReplac(TitleOf(body[i])) /\ ~ContainsReplac(DescriptionOf(body[i])))
              => i \notin SentAt(cycleLog)
        /\ DescriptionOf(body[i]) = <<>> => i \notin SentAt(cycleLog)

\* An unseen entry with the phrase in its title and no description went
\* unreported.
C6_TitleMatchUnreported ==
    \E i \in UnseenAt(cycleLog) \ SentAt(cycleLog) :
        /\ ContainsReplac(TitleOf(body[i]))
        /\ "description" \notin body[i].attrs

\* A step in which run_forever's request gets its reply.
RequestStep == pc = "fetch" /\ reply' # "none"

\* C7 as claimed: every request carries If-None-Match equal to etag exactly
\* when etag is set, and If-Modified-Since equal to modified exactly when
\* modified is set (None stands for "not set" and for "no such header").
C7_ValidatorSentWhenStored ==
    [][RequestStep => (lastReq'.inm = etag /\ lastReq'.ims = modified)]_vars

\* C7 as amended: a validator is sent exactly when it is stored and not the
\* empty string, and the first request of a process carries neither header.
C7_ValidatorSentWhenNonEmpty ==
    [][RequestStep =>
          /\ lastReq'.inm = (IF etag \in {None, ""} THEN None ELSE etag)
          /\ lastReq'.ims = (IF modified \in {None, ""} THEN None ELSE modified)
          /\ (~fetched => lastReq' = NoRequest) ]_vars

\* A request that carried the stored etag and, the stored last-modified value
\* being empty, no If-Modified-Since.
C7_ConditionalRequest ==
    /\ reply = "304"
    /\ etag = "e1" /\ lastReq.inm = "e1"
    /\ modified = "" /\ lastReq.ims = None

\* C8: a cycle whose reply is 304 leaves etag, modified, seen_ids and the CSV
\* file as they were, processes no entry, invokes the sink for none and goes
\* to the sleep that ends the cycle.
C8_NotModifiedChangesNothing ==
    [][(pc = "fetch" /\ reply' = "304") =>
          /\ etag' = etag /\ modified' = modified
          /\ seen_ids' = seen_ids /\ csv' = csv
          /\ body' = <<>> /\ cycleLog' = <<>>
          /\ pc' = "sleep" ]_vars

\* A 304 cycle of a watcher that holds both validators and a ledger row.
C8_NotModifiedWithState ==
    /\ reply = "304"
    /\ etag = "e1" /\ modified = "m1"
    /\ seen_ids # {} /\ RowIds(csv.lines) # {}

\* C9 as claimed: after the cooldown was taken, the wait before the next
\* request is the extended cooldown, with the counter at 0.
C9_WaitIsCooldown ==
    (pc = "fetch" /\ cooled) =>
        (waited = CooldownFactor * POLL_INTERVAL_SEC /\ consecutive_errors = 0)

\* C9 as amended: when the counter reaches max_errors the loop takes the
\* cooldown sleep of 3 x POLL_INTERVAL_SEC once, resets the counter to 0 and
\* then sleeps the base interval as in every iteration: the wait before the
\* next request is 4 x POLL_INTERVAL_SEC.
C9_CooldownThenInterval ==
    /\ consecutive_errors <= max_errors
    /\ consecutive_errors = max_errors => pc \in {"cooldown", "cancelled"}
    /\ pc = "cooldown" => (consecutive_errors = max_errors /\ waited = 0 /\ ~cooled)
    /\ (cooled /\ pc = "sleep") =>
          (waited = CooldownFactor * POLL_INTERVAL_SEC /\ consecutive_errors = 0)
    /\ (cooled /\ pc = "fetch") =>
          /\ waited = CooldownFactor * POLL_INTERVAL_SEC + POLL_INTERVAL_SEC
          /\ consecutive_errors = 0

\* The loop is about to fetch again after a cooldown.
C9_AfterCooldown == pc = "fetch" /\ cooled /\ waited > POLL_INTERVAL_SEC

\* C10: run_forever is always at one of its await points unless it was
\* cancelled; whatever a cycle ran into, the loop comes back to issue a
\* request and the request is made, unless the task is cancelled first.
C10_LoopNeverEnds ==
    /\ [](pc \in {"fetch", "read", "cooldown", "sleep", "cancelled"})
    /\ (pc \in {"read", "cooldown", "sleep"}) ~> (pc \in {"fetch", "cancelled"})
    /\ (pc = "fetch") ~> (reply # "none" \/ pc = "cancelled")

\* The loop is back at a request after a cycle that a ledger error ended.
C10_BackAfterError ==
    pc = "fetch" /\ fetched /\ saveFailed /\ consecutive_errors > 0

\* C11: in a cycle whose fetch failed (a transport failure, a timeout or a
\* status other than 200 and 304, before or while the response is read) the
\* validators are those the request was built from, no entry was processed,
\* the sink was invoked for none, no ledger row was written, and the loop is
\* on its way to the next request.
C11_FetchErrorChangesNothing ==
    reply \in {"error", "readerror"} =>
        /\ request_headers(etag, modified) = lastReq
        /\ body = <<>> /\ cycleLog = <<>>
        /\ SentIds(cycleLog) = {} /\ SavedIds(cycleLog) = {}
        /\ cycleExc = "FetchError"
        /\ pc \in {"sleep", "cooldown"}

\* The state C11 is about: the body of a 200 response was never read, and
\* the watcher holds the validator that response carried.
C11_ValidatorOfUnreadBody ==
    reply = "readerror" /\ lastReq.inm = None /\ etag = "e1"

\* C12: a call of Notifier.send never raises. In test mode it returns True
\* and no Twilio API call is made; otherwise it returns True exactly when the
\* message or the call was created without an exception, and False when the
\* phone numbers are missing, when the credentials are missing, and when
\* the transport raised.
C12_SendNeverRaises ==
    lastCall.op = "send" =>
        /\ lastCall.result \in {"True", "False"}
        /\ lastCall.test_mode =>
              (lastCall.result = "True" /\ lastCall.contacted = "none")
        /\ ~lastCall.test_mode =>
              /\ lastCall.result = "True"
                    <=> (lastCall.contacted # "none" /\ lastCall.transport = "ok")
              /\ lastCall.contacted # "none"
                    <=> (twilio.from_to /\ twilio.sid_token)
              /\ lastCall.contacted # "none" =>
                    lastCall.contacted = (IF twilio.use_voice THEN "calls.create"
                                          ELSE "messages.create")
        /\ twilio.client => twilio.sid_token

\* A voice call the transport refused: send returned False.
C12_TransportErrorIsFalse ==
    /\ lastCall.op = "send" /\ ~lastCall.test_mode
    /\ lastCall.contacted = "calls.create" /\ lastCall.transport = "raise"
    /\ lastCall.result = "False" /\ lastCall.again

\* C13: when EntryStore(DB_PATH) succeeds, main() constructs the FeedWatcher
\* from the store and starts run_forever; it does not return a failure code
\* (it is running, or has returned 0 after a shutdown signal).
C13_MainStartsTheLoop ==
    (lastCall.op = "main" /\ lastCall.store_ok) =>
        /\ main.watcher = "constructed"
        /\ main.task = "created"
        /\ main.code \in {"-", "0"}

\* main() has returned 1 although the store was initialised.
C13_ExitedWithStore ==
    /\ lastCall.op = "main" /\ lastCall.store_ok
    /\ store = "open" /\ db.exists
    /\ main.at = "exited" /\ main.code = "1" /\ main.task = "none"

\* C14: when EntryStore(DB_PATH) raises, main() returns a non-zero exit code
\* without constructing the watcher or starting run_forever: no request was
\* issued, no entry processed and the sink not invoked.
C14_StoreFailureExits ==
    (lastCall.op = "main" /\ ~lastCall.store_ok) =>
        /\ main.at = "exited" /\ main.code \notin {"0", "-"}
        /\ lastCall.result = main.code
        /\ main.watcher = "none" /\ main.task = "none"
        /\ store = "none"
        /\ ~fetched /\ reply = "none" /\ cycleLog = <<>> /\ notified = {}

\* main() was run on a database that an earlier process had written and
\* that can no longer be opened.
C14_FailedOnExistingDb ==
    /\ lastCall.op = "main" /\ ~lastCall.store_ok
    /\ db.exists /\ db.seen # {}
    /\ main.code = "1"

\* C15: no step removes an id from the set of seen ids, neither from the
\* table of EntryStore nor from the watcher's seen_ids, a new watcher that
\* loads the CSV file included.
C15_AppendOnly ==
    [][seen_ids \subseteq seen_ids' /\ db.seen \subseteq db'.seen]_vars

\* A new watcher on a file with rows has loaded nothing.
C15_LoadedNothing ==
    /\ lastCall.op = "FeedWatcher"
    /\ RowIds(csv.lines) # {} /\ seen_ids = {}

\* C16: the first request of a process is issued before any sleep, and a
\* later request whose previous cycle did not take the cooldown is issued
\* after exactly one sleep of POLL_INTERVAL_SEC.
C16_FirstFetchImmediate ==
    /\ ~fetched => (pc \in {"fetch", "cancelled"} /\ waited = 0 /\ ~cooled)
    /\ (pc = "fetch" /\ fetched /\ ~cooled) => waited = POLL_INTERVAL_SEC
    /\ (pc = "sleep" /\ ~cooled) => waited = 0

\* The loop is about to issue a request after four failed cycles, none of
\* which took the cooldown.
C16_NextRequestAfterInterval ==
    /\ pc = "fetch" /\ fetched /\ ~cooled
    /\ consecutive_errors = max_errors - 1
    /\ waited = POLL_INTERVAL_SEC

\* C17: when a 200 response arrives, etag becomes the response's ETag
\* header if it has one and keeps its value otherwise, and modified becomes
\* the response's Last-Modified header if it has one and keeps its value
\* otherwise, each whatever the other header is.
C17_ValidatorsIndependent ==
    [][(pc = "fetch" /\ reply' = "200") =>
          /\ etag' = (IF received'.etag # None THEN received'.etag ELSE etag)
          /\ modified' = (IF received'.modified # None THEN received'.modified
                          ELSE modified) ]_vars

\* A 200 response with a Last-Modified header and no ETag reached a watcher
\* that held an etag and a different last-modified value: only modified
\* changed.
C17_OnlyOneUpdated ==
    /\ pc = "read" /\ reply = "200"
    /\ received = [etag |-> None, modified |-> ""]
    /\ lastReq = [inm |-> "e1", ims |-> "m1"]
    /\ etag = "e1" /\ modified = ""

\* A step that ends the try block of a cycle without an exception: a 304,
\* an empty body, or a body that _process_feed went through.
CycleSucceeds ==
    \/ pc = "fetch" /\ reply' = "304"
    \/ pc = "read" /\ reply' = "200empty"
    \/ pc = "read" /\ reply' = "200body" /\ cycleExc' = "none"

\* C18: every cycle that completes without an exception, with a body or
\* with 304, leaves consecutive_errors at 0, so that only failures with no
\* successful cycle between them add up to max_errors.
C18_SuccessResetsCounter ==
    [][CycleSucceeds => consecutive_errors' = 0]_vars

\* A 304 cycle has ended with four earlier failures still counted.
C18_CountKeptAcross304 ==
    reply = "304" /\ pc = "sleep" /\ consecutive_errors = max_errors - 1

\* A step in which _process_feed raises on a fetched body.
ProcessingFails ==
    pc = "read" /\ reply' = "200body" /\ cycleExc' \in {"OSError", "AttributeError"}

\* C19: an exception raised while a fetched body is processed (a ledger
\* write that fails, an entry without a field) leaves consecutive_errors
\* as it was and does not lead to the cooldown.
C19_ProcessingFailureNotCounted ==
    [][ProcessingFails =>
          (consecutive_errors' = consecutive_errors /\ pc' # "cooldown")]_vars

\* The cooldown was entered by a cycle whose fetch succeeded and whose
\* processing raised.
C19_CooldownByProcessing ==
    pc = "cooldown" /\ reply = "200body" /\ cycleExc = "AttributeError"

\* The positions of a body at which an id first occurs on an entry whose id
\* can be read (the entry has a link, line 143).
FirstOccurrences(b, id) ==
    LET at == {i \in 1..Len(b) : "link" \in b[i].attrs
                                 /\ GetAttr(b[i], "id", b[i].link) = id}
    IN  {i \in at : \A j \in at : i <= j}

\* C20: when _save_entry raises for an entry, run_forever goes on to its
\* next sleep and the entry's id is not in seen_ids; and the next time a
\* body contains an entry with that id, the entry gets past the seen check
\* again and the sink is invoked for it if its description matches.
C20_FailedWriteRetried ==
    [][ /\ (ProcessingFails /\ cycleExc' = "OSError") =>
              /\ pc' \in {"sleep", "cooldown"}
              /\ unsaved' # {} /\ unsaved' \cap seen_ids' = {}
        /\ (pc = "read" /\ reply' = "200body") =>
              \A id \in unsaved : \A i \in FirstOccurrences(body', id) :
                  /\ i \in UnseenAt(cycleLog')
                  /\ ContainsReplac(DescriptionOf(body'[i]))
                        => i \in SentAt(cycleLog') ]_vars

\* The part of C20 that does not depend on the entries before: the same,
\* for passes of _process_feed that no exception ended and for the first
\* entry of a body.
C20_RetriedWhenReached ==
    [][ /\ (ProcessingFails /\ cycleExc' = "OSError") =>
              /\ pc' \in {"sleep", "cooldown"}
              /\ unsaved' # {} /\ unsaved' \cap seen_ids' = {}
        /\ (pc = "read" /\ reply' = "200body") =>
              \A id \in unsaved : \A i \in FirstOccurrences(body', id) :
                  (cycleExc' = "none" \/ i = 1) =>
                      /\ i \in UnseenAt(cycleLog')
                      /\ ContainsReplac(DescriptionOf(body'[i]))
                            => i \in SentAt(cycleLog') ]_vars

\* An entry whose write had failed was in the body of a later cycle, behind
\* an entry that raised, and was not handled.
C20_NotReachedAgain ==
    /\ reply = "200body" /\ Len(body) = 2 /\ cycleExc = "AttributeError"
    /\ body[1] = EntryNoTitle /\ body[2] = EntryAlertA /\ "a" \in unsaved
    /\ 2 \notin UnseenAt(cycleLog)

\* The id line 143 gives an entry that has a link.
EntryId(entry) == GetAttr(entry, "id", entry.link)

\* Body positions a row was written for.
SavedAt(log) == {log[j].idx : j \in EventsOf(log, "save")}

\* The body position of the entry whose handling raised OSError: the last
\* one that got past the seen check.
WriteFailedAt(log, exc) ==
    IF exc = "OSError" THEN {i \in UnseenAt(log) : \A k \in UnseenAt(log) : k <= i}
    ELSE {}

\* A step that is one direct call of _process_feed.
PassStep == calls' = calls + 1 /\ lastCall'.op = "process_feed"

\* C21: in a pass of _process_feed, an entry whose id is in seen_ids when
\* the pass starts causes no sink invocation and no ledger write; an entry
\* that gets past the seen check and whose description does not match
\* causes no sink invocation and its row is written (unless the write
\* itself raises).
C21_SkipOrRecordSilently ==
    [][PassStep =>
          \A i \in 1..Len(body') :
              "link" \in body'[i].attrs =>
                  /\ EntryId(body'[i]) \in seen_ids =>
                        (i \notin SentAt(cycleLog') /\ i \notin SavedAt(cycleLog'))
                  /\ (i \in UnseenAt(cycleLog')
                      /\ ~ContainsReplac(DescriptionOf(body'[i]))) =>
                        /\ i \notin SentAt(cycleLog')
                        /\ i \in SavedAt(cycleLog')
                             \cup WriteFailedAt(cycleLog', cycleExc') ]_vars

\* An unseen entry whose description does not match was left unrecorded by
\* a pass in which no write failed.
C21_UnseenLeftUnrecorded ==
    /\ lastCall.op = "process_feed" /\ lastCall.result = "AttributeError"
    /\ body = <<EntryPlainNoTitle>>
    /\ cycleLog = <<Event("unseen", 1, "b", "-")>>
    /\ seen_ids = {} /\ ~saveFailed

\* The sink invocations and ledger writes of a log, by position in the log.
Effects(log) == EventsOf(log, "send") \cup EventsOf(log, "save")

\* C22: the sink invocations and ledger writes of a cycle are those of the
\* body's entries in the body's order: each is for the entry at its
\* position, and whatever was done for an earlier entry of the body was
\* done before anything for a later one.
C22_FeedOrder ==
    \A j \in Effects(cycleLog) :
        /\ cycleLog[j].idx \in 1..Len(body)
        /\ "link" \in body[cycleLog[j].idx].attrs
        /\ cycleLog[j].id = EntryId(body[cycleLog[j].idx])
        /\ \A k \in Effects(cycleLog) :
              cycleLog[j].idx < cycleLog[k].idx => j < k

\* A cycle that notified and recorded the first entry of its body and then
\* recorded the second.
C22_TwoEntriesInOrder ==
    /\ reply = "200body" /\ Len(body) = 2
    /\ EntryId(body[1]) # EntryId(body[2])
    /\ SentAt(cycleLog) = {1} /\ SavedAt(cycleLog) = {1, 2}

\* C23: a pass of _process_feed on the body of the pass before, when that
\* pass returned normally, invokes the sink for no entry, writes no row,
\* leaves the file and seen_ids as they were and returns normally.
C23_SecondPassDoesNothing ==
    [][(PassStep /\ lastCall.op = "process_feed" /\ lastCall.result = "ok"
        /\ body' = body) =>
          /\ SentAt(cycleLog') = {} /\ SavedAt(cycleLog') = {}
          /\ csv' = csv /\ seen_ids' = seen_ids
          /\ lastCall'.result = "ok" ]_vars

\* A second pass over a body of two entries, one of them alert-worthy, has
\* done nothing.
C23_SameBodyTwice ==
    /\ calls = 2 /\ lastCall.op = "process_feed"
    /\ body = <<EntryAlertA, EntryTitleOnly>>
    /\ seen_ids = {"a", "b"} /\ cycleLog = <<>>
    /\ notified = {"a"}

\* C24: when a cycle starts (the request is about to go out, or its reply
\* is being read) the counter is at least 0 and less than max_errors, and
\* in no state is it above max_errors.
C24_CounterRange ==
    /\ consecutive_errors \in 0..max_errors
    /\ pc \in {"fetch", "read"} => consecutive_errors < max_errors

\* The counter has reached max_errors, by a fifth failed request in a row.
C24_CounterAtMax ==
    /\ consecutive_errors = max_errors
    /\ pc = "cooldown" /\ reply = "error" /\ ~saveFailed

\* C25: the validators differ from those the cycle's request was built from
\* only if the cycle handed a body to _process_feed; a cycle that reports
\* "no new content" (a 304, or a 200 whose body is empty) has left them as
\* they were; and a test_feed_access that stored a validator has handed the
\* body to _process_feed.
C25_ValidatorsAdvanceWithProcessing ==
    /\ (pc \in {"sleep", "cooldown"} /\ request_headers(etag, modified) # lastReq)
          => reply = "200body"
    /\ reply \in {"304", "200empty"} => request_headers(etag, modified) = lastReq
    /\ (lastCall.op = "test_feed_access" /\ lastCall.stored) => lastCall.processed

\* A cycle that reported no new content has stored a new etag.
C25_AdvancedWithoutBody ==
    /\ reply = "200empty" /\ pc = "sleep"
    /\ lastReq.inm = None /\ etag = "e1"
    /\ body = <<>> /\ cycleLog = <<>>

\* C26: at the end of a cycle that processed a body, every entry of the body
\* that has a link and a title and whose id is not in seen_ids has passed the
\* seen check in this cycle, was sent to the sink if it is alert-worthy, and
\* is unrecorded only because its own ledger write raised: no entry was left
\* out because of a failure on an entry before it.
C26_LaterEntriesHandled ==
    reply = "200body" =>
        \A i \in 1..Len(body) :
            ( /\ "link" \in body[i].attrs /\ "title" \in body[i].attrs
              /\ EntryId(body[i]) \notin seen_ids )
            => /\ i \in UnseenAt(cycleLog)
               /\ alert_worthy(body[i]) => i \in SentAt(cycleLog)
               /\ i \in WriteFailedAt(cycleLog, cycleExc)

\* The ledger write of the first entry raised, and the entry after it, with
\* another id, a link and a title, was not classified in this cycle.
C26_SecondEntryDropped ==
    /\ reply = "200body" /\ Len(body) = 2 /\ cycleExc = "OSError"
    /\ body[1] = EntryAlertA /\ SentAt(cycleLog) = {1}
    /\ body[2] = EntryTitleOnly /\ EntryId(EntryTitleOnly) \notin seen_ids
    /\ UnseenAt(cycleLog) = {1}

\* C27: every id in seen_ids has a row in data/seen_entries.csv, in every
\* state of the watcher: after construction, after each pass of
\* _process_feed whether or not a write raised, and after a restart.
C27_SeenIdsAreDurable == seen_ids \subseteq RowIds(csv.lines)

\* A restarted watcher loaded one id from the file and has added the other
\* in a cycle of this run, in which a write has also raised.
C27_LoadedAndAdded ==
    /\ restarts = 1 /\ reply = "200body" /\ saveFailed
    /\ SavedAt(cycleLog) # {} /\ seen_ids = Ids
    /\ \E id \in Ids : id \notin {cycleLog[j].id : j \in EventsOf(cycleLog, "save")}

====
